---- MODULE Spec2Model ----
(***************************************************************************)
(* Model of lock.py: an MQTT smart lock.  The process loads lock.json into *)
(* the global dictionary config_options, and two topic callbacks,          *)
(* toggle_lock and toggle_temp_password, authenticate the payload of each  *)
(* message, mutate config_options, overwrite lock.json and publish a       *)
(* status string on lock/update.                                           *)
(*                                                                         *)
(* A callback is modelled at the granularity of its externally visible     *)
(* steps: entry (decode, classify, mutate the dictionary), open("w")       *)
(* (which truncates lock.json), json.dump + close, and publish.  Every     *)
(* step that performs I/O can raise, and the process can be killed between *)
(* any two steps.                                                          *)
(***************************************************************************)
EXTENDS Integers, Sequences, FiniteSets, TLC

\* Longest payload, in bytes, that a publisher sends.
MaxLen == 2

\* Bytes a payload is made of: 'a' (0x61), and 0xC3 0xA9, which together are
\* the UTF-8 encoding of U+00E9 and apart are malformed.
Bytes == {97, 195, 169}

Payloads == UNION {[1..n -> Bytes] : n \in 0..MaxLen}

MQTT_RESPONSE_TOPIC == "lock/update"

LockTopics == {"lock/lock", "lock/unlock"}

TempTopics == {"lock/password/temp/activate", "lock/password/temp/deactivate"}

\* Keys of lock.json, in the order json.dump writes them.
Keys == <<"mqtt_client_id", "mqtt_transport", "mqtt_perm_pass", "mqtt_temp_pass",
          "mqtt_temp_active", "mqtt_qos", "locked">>

\* Strings are sequences of code points: "a", "aa", U+00E9.
PermPasswords == {<<97>>}

TempPasswords == {<<97>>, <<97, 97>>, <<233>>}

QosLevels == {0, 1}

\* The dictionaries lock.json can hold when the process starts.
Configs ==
    {[k \in {Keys[i] : i \in DOMAIN Keys} |->
        CASE k = "mqtt_client_id" -> "slock"
          [] k = "mqtt_transport" -> "tcp"
          [] k = "mqtt_perm_pass" -> pp
          [] k = "mqtt_temp_pass" -> tp
          [] k = "mqtt_temp_active" -> ta
          [] k = "mqtt_qos" -> q
          [] k = "locked" -> l] :
        pp \in PermPasswords, tp \in TempPasswords, ta \in {0, 1},
        q \in QosLevels, l \in {0, 1}}

VARIABLES
    config_options,     \* the global dictionary loaded from lock.json
    disk,               \* content of lock.json
    pc,                 \* position of the process
    topic,              \* message.topic of the running callback
    password,           \* local: message.payload.decode()
    redundant,          \* local
    authenticated,      \* local
    response_message,   \* local
    published,          \* messages the running callback has published
    pre,                \* history: config_options when the callback was entered
    writes,             \* history: open("lock.json", "w") calls of the callback
    prev,               \* history: the callback that returned just before
    temp_unlocks        \* history: disengagements by the temporary password
                        \* since it was last activated (or the process started)

vars == <<config_options, disk, pc, topic, password, redundant, authenticated,
          response_message, published, pre, writes, prev, temp_unlocks>>

locals == <<topic, password, redundant, authenticated, response_message>>

----------------------------------------------------------------------------
(* Library functions, by what they do *)

\* bytes.decode(): UTF-8.  One-byte and two-byte sequences are decoded; a
\* stray continuation byte, or a lead byte without its continuation byte,
\* raises UnicodeDecodeError (ok = FALSE).  Lead bytes of longer sequences do
\* not occur in Bytes.
RECURSIVE decode(_)
decode(b) ==
    IF b = <<>> THEN [ok |-> TRUE, str |-> <<>>]
    ELSE IF b[1] < 128
    THEN LET r == decode(Tail(b))
         IN  [ok |-> r.ok, str |-> <<b[1]>> \o r.str]
    ELSE IF b[1] >= 194 /\ b[1] <= 223 /\ Len(b) >= 2 /\ b[2] >= 128 /\ b[2] <= 191
    THEN LET r == decode(SubSeq(b, 3, Len(b)))
         IN  [ok |-> r.ok, str |-> <<(b[1] - 192) * 64 + (b[2] - 128)>> \o r.str]
    ELSE [ok |-> FALSE, str |-> <<>>]

\* The JSON document of an object: its members in key order, then the
\* closing brace.
json_text(obj) ==
    [members |-> [i \in DOMAIN Keys |-> <<Keys[i], obj[Keys[i]]>>], closed |-> TRUE]

\* Mutant of json_dump: the document never reaches the file.
json_dump_unflushed(obj) == [members |-> <<>>, closed |-> FALSE]

\* Mutant of json_dump: the dictionary written is the one from before the
\* update.
json_dump_stale(obj) == json_text(pre)

\* json.dump(obj, f) followed by the close of f, as the with block does: the
\* file holds the whole document.
json_dump(obj) == json_text(obj)

\* What a dump that raises part-way leaves in the file: the first n members.
json_dump_partial(obj, n) ==
    [members |-> SubSeq(json_text(obj).members, 1, n), closed |-> FALSE]

\* open("lock.json", "w") truncates the file.
open_w == [members |-> <<>>, closed |-> FALSE]

\* json.load(f): the object, or JSONDecodeError (ok = FALSE) when the text is
\* not a complete document.
json_load(text) ==
    IF text.closed
    THEN [ok |-> TRUE,
          obj |-> [k \in {text.members[i][1] : i \in DOMAIN text.members} |->
                     text.members[CHOOSE i \in DOMAIN text.members :
                                      text.members[i][1] = k][2]]]
    ELSE [ok |-> FALSE, obj |-> <<>>]

\* Python truth value of a number.
truthy(v) == v /= 0

----------------------------------------------------------------------------
(* Utility functions *)

\* Mutant of authenticate: the temporary password is tested first.
authenticate_temp_first(config, password_) ==
    IF truthy(config["mqtt_temp_active"])
       /\ config_options["mqtt_temp_pass"] = password_ THEN 2
    ELSE IF config["mqtt_perm_pass"] = password_ THEN 1
    ELSE 0

\* Mutant of authenticate: the active flag of the temporary password is not
\* looked at.
authenticate_ignoring_flag(config, password_) ==
    IF config["mqtt_perm_pass"] = password_ THEN 1
    ELSE IF config_options["mqtt_temp_pass"] = password_ THEN 2
    ELSE 0

authenticate(config, password_) ==
    IF config["mqtt_perm_pass"] = password_ THEN 1
    ELSE IF truthy(config["mqtt_temp_active"])
            /\ config_options["mqtt_temp_pass"] = password_ THEN 2
    ELSE 0

\* slock.publish(topic, payload, qos, retain=False, properties)
publish(config, topic_, message) ==
    [topic |-> topic_, payload |-> message, qos |-> config["mqtt_qos"], retain |-> FALSE]

----------------------------------------------------------------------------
(* toggle_lock *)

\* Mutant of lock_redundant: no request is seen as redundant.
lock_redundant_never(config, topic_) == FALSE

lock_redundant(config, topic_) ==
    \/ config["locked"] = 0 /\ topic_ = "lock/unlock"
    \/ config["locked"] = 1 /\ topic_ = "lock/lock"

\* Mutant of lock_failure: a refused request that was redundant is told so.
lock_failure_leaky(topic_) ==
    IF lock_redundant(config_options, topic_) THEN "Failure: Lock Already In That State"
    ELSE IF topic_ = "lock/lock" THEN "Failure: Locking Failed"
    ELSE "Failure: Unlocking Failed"

lock_failure(topic_) ==
    IF topic_ = "lock/lock" THEN "Failure: Locking Failed" ELSE "Failure: Unlocking Failed"

\* Mutant of lock_authorized: the classification is not looked at.
lock_authorized_any(authenticated_) == TRUE

lock_authorized(authenticated_) == authenticated_ /= 0

\* Mutant of lock_retires: the state of the lock after the toggle is not
\* looked at.
lock_retires_on_lock(authenticated_, config) == authenticated_ = 2

\* Mutant of lock_retires: the temporary password is never deactivated.
lock_retires_never(authenticated_, config) == FALSE

\* The temporary password is deactivated when it was used to unlock.
lock_retires(authenticated_, config) ==
    authenticated_ = 2 /\ config["locked"] = 0

\* Mutant of lock_toggle: the deactivation is not nested in the redundancy
\* test.
lock_toggle_retire_outside(config, redundant_, authenticated_) ==
    LET toggled == IF redundant_ THEN config
                   ELSE [config EXCEPT !["locked"] = IF config["locked"] = 1 THEN 0 ELSE 1]
    IN  IF authenticated_ = 2 /\ toggled["locked"] = 0
        THEN [toggled EXCEPT !["mqtt_temp_active"] = 0]
        ELSE toggled

lock_toggle(config, redundant_, authenticated_) ==
    IF redundant_ THEN config
    ELSE LET toggled == [config EXCEPT !["locked"] = IF config["locked"] = 1 THEN 0 ELSE 1]
         IN  IF lock_retires(authenticated_, toggled)
             THEN [toggled EXCEPT !["mqtt_temp_active"] = 0]
             ELSE toggled

\* Mutant of lock_success: the prefix test is inverted.
lock_success_inverted(topic_, redundant_) ==
    LET response_prefix == IF redundant_ THEN "Now" ELSE "Already"
        response_type == IF topic_ = "lock/lock" THEN "Engaged" ELSE "Disengaged"
    IN  "Success: Lock " \o response_prefix \o " " \o response_type

lock_success(topic_, redundant_) ==
    LET response_prefix == IF redundant_ THEN "Already" ELSE "Now"
        response_type == IF topic_ = "lock/lock" THEN "Engaged" ELSE "Disengaged"
    IN  "Success: Lock " \o response_prefix \o " " \o response_type

----------------------------------------------------------------------------
(* toggle_temp_password *)

\* Mutant of temp_redundant: no request is seen as redundant.
temp_redundant_never(config, topic_) == FALSE

temp_redundant(config, topic_) ==
    \/ config["mqtt_temp_active"] = 0 /\ topic_ = "lock/password/temp/deactivate"
    \/ config["mqtt_temp_active"] = 1 /\ topic_ = "lock/password/temp/activate"

temp_failure(topic_) ==
    IF topic_ = "lock/password/temp/activate"
    THEN "Failure: Temp Password Activation Failed"
    ELSE "Failure: Temp Password Deactivation Failed"

\* Mutant of temp_authorized: any authenticated password is accepted, as in
\* toggle_lock.
temp_authorized_any(authenticated_) == authenticated_ /= 0

temp_authorized(authenticated_) == authenticated_ = 1

\* Mutant of temp_toggle: the flag is toggled on a redundant request too.
temp_toggle_always(config, redundant_) ==
    [config EXCEPT !["mqtt_temp_active"] =
                       IF config["mqtt_temp_active"] = 1 THEN 0 ELSE 1]

temp_toggle(config, redundant_) ==
    IF redundant_ THEN config
    ELSE [config EXCEPT !["mqtt_temp_active"] =
                            IF config["mqtt_temp_active"] = 1 THEN 0 ELSE 1]

temp_success(topic_, redundant_) ==
    LET response_prefix == IF redundant_ THEN "Already" ELSE "Now"
        response_type == IF topic_ = "lock/password/temp/activate"
                         THEN "Activated" ELSE "Deactivated"
    IN  "Success: Temp Password " \o response_prefix \o " " \o response_type

----------------------------------------------------------------------------
(* The process *)

NoLocals ==
    /\ password' = <<>>
    /\ redundant' = FALSE
    /\ authenticated' = 0
    /\ response_message' = ""

NoPrev ==
    [valid |-> FALSE, topic |-> "", password |-> <<>>, authenticated |-> 0,
     redundant |-> FALSE]

\* The summary of the callback that has just returned, if one has.
Returned ==
    IF pc = "returned"
    THEN [valid |-> TRUE, topic |-> topic, password |-> password,
          authenticated |-> authenticated, redundant |-> redundant]
    ELSE NoPrev

\* Mutant of loop_dispatches: messages are dispatched to callbacks on
\* several threads.
loop_dispatches_threaded == pc \in {"idle", "open", "dump", "publish", "returned"}

\* slock.loop_forever() runs the callbacks on its own thread, one message at
\* a time: a callback is called only when none is running.
loop_dispatches == pc \in {"idle", "returned"}

Init ==
    /\ \E c \in Configs : disk = json_text(c)
    /\ config_options = json_load(disk).obj
    /\ pc = "idle"
    /\ topic = ""
    /\ password = <<>>
    /\ redundant = FALSE
    /\ authenticated = 0
    /\ response_message = ""
    /\ published = <<>>
    /\ pre = config_options
    /\ writes = 0
    /\ prev = NoPrev
    /\ temp_unlocks = 0

\* toggle_lock up to the end of the in-memory update.
toggle_lock_enter(t, payload) ==
    /\ loop_dispatches
    /\ t \in LockTopics
    /\ decode(payload).ok
    /\ LET pw == decode(payload).str
           red == lock_redundant(config_options, t)
           auth == authenticate(config_options, pw)
       IN  /\ topic' = t
           /\ password' = pw
           /\ redundant' = red
           /\ authenticated' = auth
           /\ response_message' = lock_failure(t)
           /\ config_options' = IF lock_authorized(auth)
                                THEN lock_toggle(config_options, red, auth)
                                ELSE config_options
           /\ pc' = IF lock_authorized(auth) THEN "open" ELSE "publish"
           /\ temp_unlocks' = IF auth = 2 /\ config_options["locked"] = 1
                                  /\ config_options'["locked"] = 0
                               THEN (IF temp_unlocks < 2 THEN temp_unlocks + 1 ELSE temp_unlocks)
                               ELSE temp_unlocks
    /\ pre' = config_options
    /\ writes' = 0
    /\ published' = <<>>
    /\ prev' = Returned
    /\ UNCHANGED disk

\* message.payload.decode() raises: the exception leaves the callback.
toggle_lock_decode_error(t, payload) ==
    /\ loop_dispatches
    /\ t \in LockTopics
    /\ ~decode(payload).ok
    /\ topic' = t
    /\ NoLocals
    /\ pc' = "fatal"
    /\ pre' = config_options
    /\ writes' = 0
    /\ published' = <<>>
    /\ prev' = Returned
    /\ UNCHANGED <<config_options, disk, temp_unlocks>>

toggle_lock_open ==
    /\ pc = "open"
    /\ topic \in LockTopics
    /\ disk' = open_w
    /\ writes' = writes + 1
    /\ pc' = "dump"
    /\ UNCHANGED <<config_options, locals, published, pre, prev, temp_unlocks>>

\* open() raises OSError: lock.json is untouched, the exception leaves the
\* callback.
toggle_lock_open_error ==
    /\ pc = "open"
    /\ topic \in LockTopics
    /\ writes' = writes + 1
    /\ pc' = "fatal"
    /\ UNCHANGED <<config_options, disk, locals, published, pre, prev, temp_unlocks>>

toggle_lock_dump ==
    /\ pc = "dump"
    /\ topic \in LockTopics
    /\ disk' = json_dump(config_options)
    /\ response_message' = lock_success(topic, redundant)
    /\ pc' = "publish"
    /\ UNCHANGED <<config_options, topic, password, redundant, authenticated,
                   published, pre, writes, prev, temp_unlocks>>

\* json.dump or the close raises OSError part-way.
toggle_lock_dump_error ==
    /\ pc = "dump"
    /\ topic \in LockTopics
    /\ \E n \in 0..Len(Keys) : disk' = json_dump_partial(config_options, n)
    /\ pc' = "fatal"
    /\ UNCHANGED <<config_options, locals, published, pre, writes, prev, temp_unlocks>>

toggle_lock_publish ==
    /\ pc = "publish"
    /\ topic \in LockTopics
    /\ published' = Append(published,
                           publish(config_options, MQTT_RESPONSE_TOPIC, response_message))
    /\ pc' = "returned"
    /\ UNCHANGED <<config_options, disk, locals, pre, writes, prev, temp_unlocks>>

\* toggle_temp_password up to the end of the in-memory update.
toggle_temp_password_enter(t, payload) ==
    /\ loop_dispatches
    /\ t \in TempTopics
    /\ decode(payload).ok
    /\ LET pw == decode(payload).str
           red == temp_redundant(config_options, t)
           auth == authenticate(config_options, pw)
       IN  /\ topic' = t
           /\ password' = pw
           /\ redundant' = red
           /\ authenticated' = auth
           /\ response_message' = temp_failure(t)
           /\ config_options' = IF temp_authorized(auth)
                                THEN temp_toggle(config_options, red)
                                ELSE config_options
           /\ pc' = IF temp_authorized(auth) THEN "open" ELSE "publish"
           /\ temp_unlocks' = IF config_options["mqtt_temp_active"] = 0
                                  /\ config_options'["mqtt_temp_active"] = 1
                               THEN 0 ELSE temp_unlocks
    /\ pre' = config_options
    /\ writes' = 0
    /\ published' = <<>>
    /\ prev' = Returned
    /\ UNCHANGED disk

toggle_temp_password_decode_error(t, payload) ==
    /\ loop_dispatches
    /\ t \in TempTopics
    /\ ~decode(payload).ok
    /\ topic' = t
    /\ NoLocals
    /\ pc' = "fatal"
    /\ pre' = config_options
    /\ writes' = 0
    /\ published' = <<>>
    /\ prev' = Returned
    /\ UNCHANGED <<config_options, disk, temp_unlocks>>

toggle_temp_password_open ==
    /\ pc = "open"
    /\ topic \in TempTopics
    /\ disk' = open_w
    /\ writes' = writes + 1
    /\ pc' = "dump"
    /\ UNCHANGED <<config_options, locals, published, pre, prev, temp_unlocks>>

toggle_temp_password_open_error ==
    /\ pc = "open"
    /\ topic \in TempTopics
    /\ writes' = writes + 1
    /\ pc' = "fatal"
    /\ UNCHANGED <<config_options, disk, locals, published, pre, prev, temp_unlocks>>

toggle_temp_password_dump ==
    /\ pc = "dump"
    /\ topic \in TempTopics
    /\ disk' = json_dump(config_options)
    /\ response_message' = temp_success(topic, redundant)
    /\ pc' = "publish"
    /\ UNCHANGED <<config_options, topic, password, redundant, authenticated,
                   published, pre, writes, prev, temp_unlocks>>

toggle_temp_password_dump_error ==
    /\ pc = "dump"
    /\ topic \in TempTopics
    /\ \E n \in 0..Len(Keys) : disk' = json_dump_partial(config_options, n)
    /\ pc' = "fatal"
    /\ UNCHANGED <<config_options, locals, published, pre, writes, prev, temp_unlocks>>

toggle_temp_password_publish ==
    /\ pc = "publish"
    /\ topic \in TempTopics
    /\ published' = Append(published,
                           publish(config_options, MQTT_RESPONSE_TOPIC, response_message))
    /\ pc' = "returned"
    /\ UNCHANGED <<config_options, disk, locals, pre, writes, prev, temp_unlocks>>

\* The process is killed (power loss, SIGKILL) between two steps.
Crash ==
    /\ pc \in {"idle", "open", "dump", "publish", "returned"}
    /\ pc' = "crashed"
    /\ UNCHANGED <<config_options, disk, locals, published, pre, writes, prev, temp_unlocks>>

\* The process is started again and reads lock.json.
Restart ==
    /\ pc \in {"crashed", "fatal"}
    /\ json_load(disk).ok
    /\ config_options' = json_load(disk).obj
    /\ pc' = "idle"
    /\ topic' = ""
    /\ NoLocals
    /\ published' = <<>>
    /\ pre' = json_load(disk).obj
    /\ writes' = 0
    /\ prev' = NoPrev
    /\ temp_unlocks' = 0
    /\ UNCHANGED disk

\* The process is started again and json.load raises: it never serves.
RestartFails ==
    /\ pc \in {"crashed", "fatal"}
    /\ ~json_load(disk).ok
    /\ pc' = "down"
    /\ UNCHANGED <<config_options, disk, locals, published, pre, writes, prev, temp_unlocks>>

Next ==
    \/ \E t \in LockTopics, payload \in Payloads : toggle_lock_enter(t, payload)
    \/ \E t \in LockTopics, payload \in Payloads : toggle_lock_decode_error(t, payload)
    \/ toggle_lock_open
    \/ toggle_lock_open_error
    \/ toggle_lock_dump
    \/ toggle_lock_dump_error
    \/ toggle_lock_publish
    \/ \E t \in TempTopics, payload \in Payloads : toggle_temp_password_enter(t, payload)
    \/ \E t \in TempTopics, payload \in Payloads : toggle_temp_password_decode_error(t, payload)
    \/ toggle_temp_password_open
    \/ toggle_temp_password_open_error
    \/ toggle_temp_password_dump
    \/ toggle_temp_password_dump_error
    \/ toggle_temp_password_publish
    \/ Crash
    \/ Restart
    \/ RestartFails

Spec == Init /\ [][Next]_vars

----------------------------------------------------------------------------
(* Properties *)

\* The callback has returned: its one publish call is in published.
Returned1 == pc = "returned" /\ Len(published) = 1

\* The string the callback published.
Response == published[1].payload

\* lock.json, read back, is the dictionary d.
DiskHolds(d) == json_load(disk).ok /\ json_load(disk).obj = d

\* C1: a Lock or Unlock whose payload is classified as neither password
\* changes nothing in config_options (so neither locked nor
\* mqtt_temp_active), never opens lock.json for writing, and publishes
\* exactly the failure string of its topic.
C1_UnauthorizedLock ==
    (pc \in {"publish", "returned"} /\ topic \in LockTopics /\ authenticated = 0) =>
        /\ config_options = pre
        /\ writes = 0
        /\ DiskHolds(pre)
        /\ pc = "returned" =>
            /\ Len(published) = 1
            /\ published[1].topic = "lock/update"
            /\ topic = "lock/lock" => Response = "Failure: Locking Failed"
            /\ topic = "lock/unlock" => Response = "Failure: Unlocking Failed"

\* C1 witness: scenario A, an Unlock with a wrong password on an engaged
\* lock has been answered.
C1_Witness ==
    /\ Returned1
    /\ topic = "lock/unlock"
    /\ authenticated = 0
    /\ pre["locked"] = 1
    /\ pre["mqtt_temp_active"] = 0
    /\ Response = "Failure: Unlocking Failed"

\* C2: an Unlock with the active temporary password (classified 2) on an
\* engaged lock returns with the lock disengaged and the temporary password
\* deactivated, and answers "Success: Lock Now Disengaged".
C2_Coupling ==
    (/\ pc = "returned"
     /\ topic = "lock/unlock"
     /\ authenticated = 2
     /\ password = pre["mqtt_temp_pass"]
     /\ pre["locked"] = 1
     /\ pre["mqtt_temp_active"] = 1) =>
        /\ config_options["locked"] = 0
        /\ config_options["mqtt_temp_active"] = 0
        /\ Len(published) = 1
        /\ Response = "Success: Lock Now Disengaged"

\* C2 witness: scenario D has run to its answer.
C2_Witness ==
    /\ Returned1
    /\ topic = "lock/unlock"
    /\ authenticated = 2
    /\ pre["locked"] = 1
    /\ pre["mqtt_temp_active"] = 1
    /\ config_options["mqtt_temp_active"] = 0

\* The failure string of an Activate or Deactivate.
TempFailureOf(t) ==
    IF t = "lock/password/temp/activate"
    THEN "Failure: Temp Password Activation Failed"
    ELSE "Failure: Temp Password Deactivation Failed"

\* An Activate or Deactivate was refused: nothing changed, nothing was
\* written, and once returned the failure string of the topic is the answer.
TempRefused ==
    /\ config_options = pre
    /\ writes = 0
    /\ DiskHolds(pre)
    /\ pc = "returned" => (Len(published) = 1 /\ Response = TempFailureOf(topic))

\* C3 as stated: while the temporary password is active, an Activate or
\* Deactivate whose payload is the temporary password is refused, redundant
\* or not.
C3_AsStated ==
    (/\ pc \in {"open", "dump", "publish", "returned"}
     /\ topic \in TempTopics
     /\ pre["mqtt_temp_active"] = 1
     /\ password = pre["mqtt_temp_pass"]) => TempRefused

\* C3 amended: while the temporary password is active, an Activate or
\* Deactivate whose payload is the temporary password and not also the
\* permanent password is refused, redundant or not.
C3_Escalation ==
    (/\ pc \in {"open", "dump", "publish", "returned"}
     /\ topic \in TempTopics
     /\ pre["mqtt_temp_active"] = 1
     /\ password = pre["mqtt_temp_pass"]
     /\ password /= pre["mqtt_perm_pass"]) => TempRefused

\* C3 witness: a Deactivate (not redundant) carrying the active temporary
\* password has been refused.
C3_Witness ==
    /\ Returned1
    /\ topic = "lock/password/temp/deactivate"
    /\ pre["mqtt_temp_active"] = 1
    /\ password = pre["mqtt_temp_pass"]
    /\ authenticated = 2
    /\ ~redundant
    /\ Response = "Failure: Temp Password Deactivation Failed"

\* The callback is past its classification of the payload.
Classified == pc \in {"open", "dump", "publish", "returned"}

\* The failure string of any of the four topics.
FailureOf(t) ==
    CASE t = "lock/lock" -> "Failure: Locking Failed"
      [] t = "lock/unlock" -> "Failure: Unlocking Failed"
      [] OTHER -> TempFailureOf(t)

\* C4 as stated: while the temporary password is inactive, a payload equal
\* to its value is classified 0, so the command is refused and changes
\* nothing.
C4_AsStated ==
    (/\ Classified
     /\ pre["mqtt_temp_active"] = 0
     /\ password = pre["mqtt_temp_pass"]) =>
        /\ authenticated = 0
        /\ config_options = pre
        /\ writes = 0

\* C4 amended: while the temporary password is inactive, a payload equal to
\* its value is never classified 2; unless it is also the permanent password
\* it is classified 0, and the command, on any of the four topics, changes
\* nothing, writes nothing and is answered with the failure string.
C4_InactiveTemp ==
    (/\ Classified
     /\ pre["mqtt_temp_active"] = 0
     /\ password = pre["mqtt_temp_pass"]) =>
        /\ authenticated /= 2
        /\ password /= pre["mqtt_perm_pass"] =>
            /\ authenticated = 0
            /\ config_options = pre
            /\ writes = 0
            /\ DiskHolds(pre)
            /\ pc = "returned" => (Len(published) = 1 /\ Response = FailureOf(topic))

\* C4 witness: scenario E, an Activate carrying the inactive temporary
\* password has been refused.
C4_Witness ==
    /\ Returned1
    /\ topic = "lock/password/temp/activate"
    /\ pre["mqtt_temp_active"] = 0
    /\ password = pre["mqtt_temp_pass"]
    /\ password /= pre["mqtt_perm_pass"]
    /\ Response = "Failure: Temp Password Activation Failed"

\* This callback repeats the one that returned just before it: same topic,
\* same password, and that one was an authorized Lock or Unlock.
RepeatsAuthorized ==
    /\ pc = "returned"
    /\ prev.valid
    /\ topic \in LockTopics
    /\ prev.topic = topic
    /\ prev.password = password
    /\ prev.authenticated /= 0

AlreadyResponses == {"Success: Lock Already Engaged", "Success: Lock Already Disengaged"}

\* C5 as stated: the second of two identical Lock or Unlock commands, the
\* first of them authorized, leaves locked as it was and is answered with an
\* "Already" string.
C5_AsStated ==
    RepeatsAuthorized =>
        /\ config_options["locked"] = pre["locked"]
        /\ Len(published) = 1
        /\ Response \in AlreadyResponses

\* C5 amended: the second of two identical Lock or Unlock commands, the
\* first of them authorized, leaves locked as it was; it is answered with
\* the "Already" string of its topic whenever it is itself still authorized,
\* and it is not only when the first was an Unlock by the temporary password
\* that disengaged the lock: the password is then deactivated and the second
\* is answered "Failure: Unlocking Failed".
C5_Idempotent ==
    RepeatsAuthorized =>
        /\ config_options["locked"] = pre["locked"]
        /\ Len(published) = 1
        /\ authenticated /= 0 =>
            Response = IF topic = "lock/lock" THEN "Success: Lock Already Engaged"
                       ELSE "Success: Lock Already Disengaged"
        /\ authenticated = 0 =>
            /\ prev.authenticated = 2
            /\ ~prev.redundant
            /\ topic = "lock/unlock"
            /\ Response = "Failure: Unlocking Failed"

\* C5 witness: scenario C, a second Unlock with the permanent password has
\* been answered "Already".
C5_Witness ==
    /\ RepeatsAuthorized
    /\ topic = "lock/unlock"
    /\ authenticated = 1
    /\ ~prev.redundant
    /\ Len(published) = 1
    /\ Response = "Success: Lock Already Disengaged"

\* C6: an Unlock with the active temporary password on a lock that is
\* already disengaged leaves the temporary password active and the lock
\* disengaged and answers "Success: Lock Already Disengaged"; an Unlock by
\* the temporary password deactivates it exactly when it toggled the lock.
C6_RedundantKeepsTemp ==
    (pc = "returned" /\ topic = "lock/unlock" /\ authenticated = 2) =>
        /\ (config_options["mqtt_temp_active"] = 0) <=>
               (config_options["locked"] /= pre["locked"])
        /\ (pre["locked"] = 0 /\ pre["mqtt_temp_active"] = 1) =>
            /\ config_options["mqtt_temp_active"] = 1
            /\ config_options["locked"] = 0
            /\ Len(published) = 1
            /\ Response = "Success: Lock Already Disengaged"

\* C6 witness: a redundant Unlock with the temporary password has been
\* answered and the password is still active.
C6_Witness ==
    /\ Returned1
    /\ topic = "lock/unlock"
    /\ authenticated = 2
    /\ pre["locked"] = 0
    /\ config_options["mqtt_temp_active"] = 1
    /\ Response = "Success: Lock Already Disengaged"

SuccessResponses ==
    {"Success: Lock Now Engaged", "Success: Lock Now Disengaged",
     "Success: Lock Already Engaged", "Success: Lock Already Disengaged",
     "Success: Temp Password Now Activated", "Success: Temp Password Now Deactivated",
     "Success: Temp Password Already Activated",
     "Success: Temp Password Already Deactivated"}

\* The running callback accepted the password for its topic.
Authorized ==
    \/ topic \in LockTopics /\ authenticated \in {1, 2}
    \/ topic \in TempTopics /\ authenticated = 1

\* C7: whenever the callback of an authorized command has published its
\* answer, lock.json has been opened for writing once and, read back, is the
\* dictionary in memory; no success string is ever out while lock.json
\* differs from config_options.
C7_PersistBeforeRespond ==
    \A i \in DOMAIN published :
        /\ (Classified /\ Authorized) =>
            /\ writes = 1
            /\ DiskHolds(config_options)
            /\ published[i].payload \in SuccessResponses
        /\ published[i].payload \in SuccessResponses => DiskHolds(config_options)

\* C7 witness: an Unlock that changed the dictionary has been answered with
\* a success string.
C7_Witness ==
    /\ Returned1
    /\ Authorized
    /\ config_options /= pre
    /\ Response = "Success: Lock Now Disengaged"

\* C8 as stated: when the process is killed, lock.json read back is either
\* the whole dictionary from before the command or the whole dictionary
\* after it.
C8_CrashConsistent ==
    pc = "crashed" => (DiskHolds(pre) \/ DiskHolds(config_options))

\* C9 as stated: when the save of an authorized command raises, the
\* dictionary in memory is what it was before the command and the command is
\* answered with its failure string.
C9_SaveFailureRollsBack ==
    (pc = "fatal" /\ writes > 0) =>
        /\ config_options = pre
        /\ Len(published) = 1
        /\ Response = FailureOf(topic)

\* C10 as stated: a callback that has ended, by returning or by raising, has
\* published exactly one message.
C10_ExactlyOneResponse ==
    pc \in {"returned", "fatal"} => Len(published) = 1

\* The requested end state of the command already held when it arrived.
RedundantBefore ==
    \/ topic = "lock/lock" /\ pre["locked"] = 1
    \/ topic = "lock/unlock" /\ pre["locked"] = 0
    \/ topic = "lock/password/temp/activate" /\ pre["mqtt_temp_active"] = 1
    \/ topic = "lock/password/temp/deactivate" /\ pre["mqtt_temp_active"] = 0

\* The reference mapping from (command, authorized, redundant) to the
\* response.
ReferenceResponse(t, authorized_, redundant_) ==
    CASE ~authorized_ /\ t = "lock/lock" -> "Failure: Locking Failed"
      [] ~authorized_ /\ t = "lock/unlock" -> "Failure: Unlocking Failed"
      [] ~authorized_ /\ t = "lock/password/temp/activate" ->
            "Failure: Temp Password Activation Failed"
      [] ~authorized_ /\ t = "lock/password/temp/deactivate" ->
            "Failure: Temp Password Deactivation Failed"
      [] authorized_ /\ t = "lock/lock" /\ redundant_ -> "Success: Lock Already Engaged"
      [] authorized_ /\ t = "lock/lock" /\ ~redundant_ -> "Success: Lock Now Engaged"
      [] authorized_ /\ t = "lock/unlock" /\ redundant_ -> "Success: Lock Already Disengaged"
      [] authorized_ /\ t = "lock/unlock" /\ ~redundant_ -> "Success: Lock Now Disengaged"
      [] authorized_ /\ t = "lock/password/temp/activate" /\ redundant_ ->
            "Success: Temp Password Already Activated"
      [] authorized_ /\ t = "lock/password/temp/activate" /\ ~redundant_ ->
            "Success: Temp Password Now Activated"
      [] authorized_ /\ t = "lock/password/temp/deactivate" /\ redundant_ ->
            "Success: Temp Password Already Deactivated"
      [] authorized_ /\ t = "lock/password/temp/deactivate" /\ ~redundant_ ->
            "Success: Temp Password Now Deactivated"

\* C11: every message a callback publishes goes to lock/update and carries
\* the string the reference mapping gives for its topic, for whether the
\* password was accepted, and for whether the request was redundant in the
\* dictionary as it was before the command; a callback publishes at most one.
C11_ClosedVocabulary ==
    /\ Len(published) <= 1
    /\ \A i \in DOMAIN published :
        /\ published[i].topic = "lock/update"
        /\ published[i].payload = ReferenceResponse(topic, Authorized, RedundantBefore)

\* C11 witness: a redundant Activate with the permanent password has been
\* answered.
C11_Witness ==
    /\ Returned1
    /\ topic = "lock/password/temp/activate"
    /\ authenticated = 1
    /\ pre["mqtt_temp_active"] = 1
    /\ Response = "Success: Temp Password Already Activated"

\* C12: when the callback of an authorized command has returned, the
\* commanded state holds: locked is 1 after Lock and 0 after Unlock,
\* mqtt_temp_active is 1 after Activate and 0 after Deactivate; the commanded
\* field differs from its value before the command exactly when the request
\* was not redundant, and the last word of the response names the state
\* after the command.
C12_CommandedEndState ==
    (pc = "returned" /\ Authorized /\ Len(published) = 1) =>
        /\ topic = "lock/lock" =>
            /\ config_options["locked"] = 1
            /\ (config_options["locked"] /= pre["locked"]) <=> ~RedundantBefore
            /\ Response \in {"Success: Lock Now Engaged", "Success: Lock Already Engaged"}
        /\ topic = "lock/unlock" =>
            /\ config_options["locked"] = 0
            /\ (config_options["locked"] /= pre["locked"]) <=> ~RedundantBefore
            /\ Response \in {"Success: Lock Now Disengaged",
                             "Success: Lock Already Disengaged"}
        /\ topic = "lock/password/temp/activate" =>
            /\ config_options["mqtt_temp_active"] = 1
            /\ (config_options["mqtt_temp_active"] /= pre["mqtt_temp_active"])
                   <=> ~RedundantBefore
            /\ Response \in {"Success: Temp Password Now Activated",
                             "Success: Temp Password Already Activated"}
        /\ topic = "lock/password/temp/deactivate" =>
            /\ config_options["mqtt_temp_active"] = 0
            /\ (config_options["mqtt_temp_active"] /= pre["mqtt_temp_active"])
                   <=> ~RedundantBefore
            /\ Response \in {"Success: Temp Password Now Deactivated",
                             "Success: Temp Password Already Deactivated"}

\* C12 witness: an Activate with the permanent password has turned the
\* temporary password on and has been answered.
C12_Witness ==
    /\ Returned1
    /\ topic = "lock/password/temp/activate"
    /\ authenticated = 1
    /\ pre["mqtt_temp_active"] = 0
    /\ config_options["mqtt_temp_active"] = 1
    /\ Response = "Success: Temp Password Now Activated"

\* The process is running and no callback is in progress.
BetweenCommands == pc \in {"idle", "returned"}

\* The process was killed while no callback was in progress.
KilledBetweenCommands == pc = "crashed" /\ (topic = "" \/ Len(published) = 1)

\* C13: whenever no callback is in progress, lock.json read back is the
\* dictionary in memory (so equal in locked, mqtt_temp_active and
\* mqtt_temp_pass); and a process killed between two commands and started
\* again has the dictionary it had when it was killed.
C13_RestartDurability ==
    /\ []((BetweenCommands \/ KilledBetweenCommands) => DiskHolds(config_options))
    /\ [][(KilledBetweenCommands /\ pc' = "idle") => config_options' = config_options]_vars

\* C13 witness: the process was killed after a command that changed the
\* dictionary had returned.
C13_Witness ==
    /\ KilledBetweenCommands
    /\ Len(published) = 1
    /\ config_options /= pre
    /\ DiskHolds(config_options)

\* A callback is between its entry and its return.
InCallback == pc \in {"open", "dump", "publish"}

C15_RedundantStillPersists ==
    (pc = "returned" /\ Authorized /\ RedundantBefore) =>
        /\ config_options["locked"] = pre["locked"]
        /\ config_options["mqtt_temp_active"] = pre["mqtt_temp_active"]
        /\ writes = 1
        /\ DiskHolds(pre)
        /\ Len(published) = 1
        /\ Response =
             CASE topic = "lock/lock" -> "Success: Lock Already Engaged"
               [] topic = "lock/unlock" -> "Success: Lock Already Disengaged"
               [] topic = "lock/password/temp/activate" ->
                     "Success: Temp Password Already Activated"
               [] topic = "lock/password/temp/deactivate" ->
                     "Success: Temp Password Already Deactivated"

\* C15 witness: a redundant Lock with the active temporary password has
\* written lock.json and been answered.
C15_Witness ==
    /\ Returned1
    /\ topic = "lock/lock"
    /\ authenticated = 2
    /\ pre["locked"] = 1
    /\ writes = 1
    /\ Response = "Success: Lock Already Engaged"

\* C16: in every step of a running process, locked changes only at the
\* entry of a Lock or Unlock that is not redundant and whose password is the
\* permanent one or the active temporary one; mqtt_temp_active goes from 0
\* to 1 only at the entry of an Activate with the permanent password, and
\* from 1 to 0 only at the entry of a Deactivate with the permanent password
\* or of an Unlock by the temporary password that disengages the lock.  And
\* after such an Unlock, the next command, unless it carries the permanent
\* password, finds and leaves the temporary password inactive.
C16_OnlyAuthorizedTransitions ==
    /\ [][pc \notin {"crashed", "fatal"} =>
            /\ config_options'["locked"] /= config_options["locked"] =>
                /\ pc \in {"idle", "returned"}
                /\ \/ topic' = "lock/lock" /\ config_options["locked"] = 0
                   \/ topic' = "lock/unlock" /\ config_options["locked"] = 1
                /\ \/ password' = config_options["mqtt_perm_pass"]
                   \/ /\ config_options["mqtt_temp_active"] = 1
                      /\ password' = config_options["mqtt_temp_pass"]
            /\ (config_options["mqtt_temp_active"] = 0
                /\ config_options'["mqtt_temp_active"] = 1) =>
                /\ pc \in {"idle", "returned"}
                /\ topic' = "lock/password/temp/activate"
                /\ password' = config_options["mqtt_perm_pass"]
            /\ (config_options["mqtt_temp_active"] = 1
                /\ config_options'["mqtt_temp_active"] = 0) =>
                /\ pc \in {"idle", "returned"}
                /\ \/ /\ topic' = "lock/password/temp/deactivate"
                      /\ password' = config_options["mqtt_perm_pass"]
                   \/ /\ topic' = "lock/unlock"
                      /\ password' = config_options["mqtt_temp_pass"]
                      /\ password' /= config_options["mqtt_perm_pass"]
                      /\ config_options["locked"] = 1
                      /\ config_options'["locked"] = 0]_vars
    /\ []((/\ Classified
           /\ prev.valid
           /\ prev.topic = "lock/unlock"
           /\ prev.authenticated = 2
           /\ ~prev.redundant
           /\ password /= pre["mqtt_perm_pass"]) =>
              /\ pre["mqtt_temp_active"] = 0
              /\ config_options["mqtt_temp_active"] = 0)

\* C16 witness: the Unlock that used up the temporary password has been
\* repeated and the password is still inactive.
C16_Witness ==
    /\ Returned1
    /\ prev.valid
    /\ prev.topic = "lock/unlock"
    /\ prev.authenticated = 2
    /\ ~prev.redundant
    /\ topic = "lock/unlock"
    /\ password = prev.password
    /\ config_options["mqtt_temp_active"] = 0

\* Configuration a command has no business with.
ImmutableKeys == {"mqtt_client_id", "mqtt_transport", "mqtt_perm_pass",
                  "mqtt_temp_pass", "mqtt_qos"}

\* C17: Activate and Deactivate leave locked alone; Lock leaves
\* mqtt_temp_active alone, also with the active temporary password; Unlock
\* changes mqtt_temp_active only by deactivating the temporary password that
\* disengaged the lock; and no step changes the passwords or the qos, in
\* memory or in lock.json whenever it is a readable document.
C17_Independence ==
    /\ [](/\ topic \in TempTopics => config_options["locked"] = pre["locked"]
          /\ topic = "lock/lock" =>
                config_options["mqtt_temp_active"] = pre["mqtt_temp_active"]
          /\ (/\ topic = "lock/unlock"
              /\ config_options["mqtt_temp_active"] /= pre["mqtt_temp_active"]) =>
                /\ password = pre["mqtt_temp_pass"]
                /\ password /= pre["mqtt_perm_pass"]
                /\ pre["mqtt_temp_active"] = 1
                /\ pre["locked"] = 1
                /\ config_options["locked"] = 0
                /\ config_options["mqtt_temp_active"] = 0
          /\ \A k \in ImmutableKeys :
                /\ config_options[k] = pre[k]
                /\ json_load(disk).ok => json_load(disk).obj[k] = pre[k])
    /\ [][\A k \in ImmutableKeys : config_options'[k] = config_options[k]]_vars

\* C17 witness: a Lock by the active temporary password has engaged the lock
\* and the password is still active.
C17_Witness ==
    /\ Returned1
    /\ topic = "lock/lock"
    /\ authenticated = 2
    /\ config_options["locked"] /= pre["locked"]
    /\ config_options["mqtt_temp_active"] = 1

\* The reference classifier: 1 Permanent, 2 Temporary, 0 None.
ReferenceClassify(state, presented) ==
    IF presented = state["mqtt_perm_pass"] THEN 1
    ELSE IF state["mqtt_temp_active"] = 1 /\ presented = state["mqtt_temp_pass"] THEN 2
    ELSE 0

\* C18: the classification a callback computes is the reference one for the
\* dictionary as it was and the decoded payload; so when both passwords have
\* the same value, that value is classified 1, an Unlock with it on an
\* engaged lock leaves mqtt_temp_active as it was, and an Activate or
\* Deactivate with it is accepted.
C18_Classifier ==
    Classified =>
        /\ authenticated = ReferenceClassify(pre, password)
        /\ (pre["mqtt_temp_pass"] = pre["mqtt_perm_pass"]
            /\ password = pre["mqtt_temp_pass"]) =>
            /\ authenticated = 1
            /\ (topic = "lock/unlock" /\ pre["locked"] = 1) =>
                /\ config_options["locked"] = 0
                /\ config_options["mqtt_temp_active"] = pre["mqtt_temp_active"]
            /\ (topic \in TempTopics /\ pc = "returned") =>
                /\ writes = 1
                /\ Len(published) = 1
                /\ Response \in SuccessResponses

\* C18 witness: with equal passwords and the temporary one active, an Unlock
\* of an engaged lock has returned and the temporary password is still
\* active.
C18_Witness ==
    /\ Returned1
    /\ pre["mqtt_temp_pass"] = pre["mqtt_perm_pass"]
    /\ password = pre["mqtt_temp_pass"]
    /\ topic = "lock/unlock"
    /\ pre["locked"] = 1
    /\ pre["mqtt_temp_active"] = 1
    /\ config_options["mqtt_temp_active"] = 1

\* The running callback is the Unlock by the temporary password that
\* disengaged the lock.
DisengagedByTemp ==
    /\ topic = "lock/unlock"
    /\ authenticated = 2
    /\ pre["locked"] = 1

C20_FailureRevealsNothing ==
    \A i \in DOMAIN published :
        ~Authorized =>
            published[i].payload =
                CASE topic = "lock/lock" -> "Failure: Locking Failed"
                  [] topic = "lock/unlock" -> "Failure: Unlocking Failed"
                  [] topic = "lock/password/temp/activate" ->
                        "Failure: Temp Password Activation Failed"
                  [] topic = "lock/password/temp/deactivate" ->
                        "Failure: Temp Password Deactivation Failed"

\* C20 witness: a refused Unlock of a lock that was already disengaged has
\* been answered like any other refused Unlock.
C20_Witness ==
    /\ Returned1
    /\ topic = "lock/unlock"
    /\ authenticated = 0
    /\ pre["locked"] = 0
    /\ pre["mqtt_temp_active"] = 1
    /\ Response = "Failure: Unlocking Failed"

====
